---- MODULE Spec2Model ----
(***************************************************************************)
(* A model of the GPW disclosure scraper (scraper_final.py) and of the two *)
(* summarisation scripts (single_agent.py, multi_agent.py).               *)
(*                                                                         *)
(* Strings that the code takes apart (hrefs, URLs, archive entry names)    *)
(* are sequences of tokens: the separator characters "/", "," and "." are  *)
(* tokens of their own and every other token is a maximal run of other     *)
(* characters, so str.split, str.startswith and str.endswith are modelled  *)
(* exactly.  Extracted text is a sequence of text atoms; "" is << >> and   *)
(* Python's + on strings is \o.                                            *)
(***************************************************************************)
EXTENDS Integers, Sequences, FiniteSets, TLC

VARIABLES
    pc,                \* position of the script scraper_final.py
    error,             \* the exception that ended the run, "none" if none
    requests,          \* every requests.get issued so far, in order
    df,                \* the DataFrame returned by scrape_articles
    i,                 \* index of the URL scrape_text_from_urls is at
    results,           \* the dict built by scrape_text_from_urls (insertion ordered)
    soup,              \* the detail page scrape_text_from_url parsed last
    main_text,         \* scrape_text_from_url's main_text
    attachment_links,  \* scrape_text_from_url's attachment_links
    j,                 \* index of the attachment link the loop is at
    attachment_texts,  \* scrape_text_from_url's attachment_texts
    output_file,       \* scraped_articles.json
    input_file,        \* the JSON value the summarisation scripts load
    summary_file,      \* what single_agent.py wrote
    multi_file         \* what multi_agent.py wrote

vars == <<pc, error, requests, df, i, results, soup, main_text, attachment_links,
          j, attachment_texts, output_file, input_file, summary_file, multi_file>>

scraper_vars == <<pc, error, requests, df, i, results, soup, main_text,
                  attachment_links, j, attachment_texts, output_file>>

summary_vars == <<input_file, summary_file, multi_file>>

-----------------------------------------------------------------------------
(* Bounds of the model.                                                    *)

MaxListing == 2

MaxTables == 3

MaxArticles == 2

-----------------------------------------------------------------------------
(* Python string operations on token sequences.                            *)

Positions(s, tok) == {k \in 1..Len(s) : s[k] = tok}

MaxOf(S) == CHOOSE x \in S : \A y \in S : y <= x

MinOf(S) == CHOOSE x \in S : \A y \in S : x <= y

\* s.split(sep)[-1]
SplitLast(s, sep) ==
    IF Positions(s, sep) = {} THEN s
    ELSE SubSeq(s, MaxOf(Positions(s, sep)) + 1, Len(s))

\* s.split(sep)[0]
SplitFirst(s, sep) ==
    IF Positions(s, sep) = {} THEN s
    ELSE SubSeq(s, 1, MinOf(Positions(s, sep)) - 1)

\* s.startswith(tok), tok free of separators
StartsWith(s, tok) == Len(s) >= 1 /\ s[1] = tok

\* s.endswith(suffix)
EndsWith(s, suffix) ==
    /\ Len(s) >= Len(suffix)
    /\ SubSeq(s, Len(s) - Len(suffix) + 1, Len(s)) = suffix

RECURSIVE Flatten(_)
\* ''.join(parts)
Flatten(parts) ==
    IF parts = << >> THEN << >> ELSE Head(parts) \o Flatten(Tail(parts))

-----------------------------------------------------------------------------
(* Payloads.  A payload is what its bytes really are, whatever its name    *)
(* says: plain text, a PDF (a sequence of pages, each with its text layer, *)
(* << >> for an image-only page), an XHTML document (its text nodes), a    *)
(* ZIP archive (its entries in namelist order) or unreadable bytes.        *)

TextBody(text) == [kind |-> "text", text |-> text, pages |-> << >>, entries |-> << >>]

PdfBody(pages) == [kind |-> "pdf", text |-> << >>, pages |-> pages, entries |-> << >>]

XhtmlBody(nodes) == [kind |-> "xhtml", text |-> nodes, pages |-> << >>, entries |-> << >>]

ZipBody(entries) == [kind |-> "zip", text |-> << >>, pages |-> << >>, entries |-> entries]

Corrupt == [kind |-> "corrupt", text |-> << >>, pages |-> << >>, entries |-> << >>]

Entry(name, body) == [name |-> name, body |-> body]

\* What an extractor hands back: its text, or the exception it let through.
Returned(text) == [raised |-> FALSE, text |-> text]

Raised == [raised |-> TRUE, text |-> << >>]

-----------------------------------------------------------------------------
(* Format extractors.                                                      *)

\* pdfplumber.open raises on anything that is not a PDF; a page whose
\* extract_text() is falsy adds nothing.
get_text_from_pdf(buffer) ==
    IF buffer.kind = "pdf"
    THEN Returned(Flatten(SelectSeq(buffer.pages, LAMBDA page_text : page_text # << >>)))
    ELSE Raised

\* etree.HTML is lenient: markup yields its text nodes, plain text becomes
\* one text node; bytes it cannot read at all make it raise.
get_text_from_xhtml(content) ==
    IF content.kind \in {"xhtml", "text"} THEN Returned(content.text) ELSE Raised

\* file.read().decode('utf-8')
read_decode_utf8(content) ==
    IF content.kind = "text" THEN Returned(content.text) ELSE Raised

\* The branch of get_text_from_zip's loop body a file name takes.
zip_branch(file_name) ==
    IF EndsWith(file_name, <<".", "txt">>) THEN "txt"
    ELSE IF EndsWith(file_name, <<".", "pdf">>) THEN "pdf"
    ELSE IF EndsWith(file_name, <<".", "xhtml">>) THEN "xhtml"
    ELSE "none"

zip_entry_text(entry) ==
    CASE zip_branch(entry.name) = "txt" -> read_decode_utf8(entry.body)
      [] zip_branch(entry.name) = "pdf" -> get_text_from_pdf(entry.body)
      [] zip_branch(entry.name) = "xhtml" -> get_text_from_xhtml(entry.body)
      [] OTHER -> Returned(<< >>)

RECURSIVE zip_loop(_, _)
\* for file_name in zfile.namelist(): text += ...; an exception leaves the loop
zip_loop(namelist, text) ==
    IF namelist = << >> THEN Returned(text)
    ELSE LET r == zip_entry_text(Head(namelist))
         IN IF r.raised THEN Raised
            ELSE zip_loop(Tail(namelist), text \o r.text)

\* zipfile.ZipFile raises BadZipFile on anything that is not an archive.
get_text_from_zip(content) ==
    IF content.kind = "zip" THEN zip_loop(content.entries, << >>) ELSE Raised

-----------------------------------------------------------------------------
(* Type derivation and URL resolution.                                     *)

\* filename = name.split('/')[-1]; filename.split(',')[0].split('.')[-1]
attachment_type(name) ==
    SplitLast(SplitFirst(SplitLast(name, "/"), ","), ".")

base_attachment_url ==
    <<"https:", "/", "/", "infostrefa", ".", "com", "/", "espi", "/", "pl", "/",
      "reports", "/", "view", "/">>

\* scheme://host of an absolute URL: everything before its third "/"
Origin(url) ==
    LET slashes == Positions(url, "/")
        third == MinOf({k \in slashes : Cardinality({m \in slashes : m < k}) = 2})
    IN SubSeq(url, 1, third - 1)

\* urllib.parse.urljoin for the references the model serves: an empty
\* reference, an absolute URL, an absolute path and a relative path (none
\* with a query, a fragment or dot segments).
urljoin(base, href) ==
    IF href = << >> THEN base
    ELSE IF StartsWith(href, "https:") THEN href
    ELSE IF StartsWith(href, "/") THEN Origin(base) \o href
    ELSE SubSeq(base, 1, MaxOf(Positions(base, "/"))) \o href

\* lines 177-180
resolve_attachment_url(url, href) ==
    IF StartsWith(href, "attachment") THEN base_attachment_url \o href
    ELSE urljoin(url, href)

\* no type held back before the download
passes_every_type(attachment_type_) == TRUE

\* line 187: the test that lets a link through to get_text_from_attachment
passes_type_filter(attachment_type_) == attachment_type_ \notin {<<"xades">>}

\* lines 121-130: the extractor get_text_from_attachment dispatches to
dispatch(attachment_type_) ==
    IF attachment_type_ = <<"pdf">> THEN "pdf"
    ELSE IF attachment_type_ = <<"xhtml">> THEN "xhtml"
    ELSE IF attachment_type_ = <<"zip">> THEN "zip"
    ELSE "none"

\* a status that is never looked at
never_raises(status) == FALSE

\* response.raise_for_status()
raise_for_status(status) == status >= 400

\* lines 116-132, once the download succeeded
extract_attachment(url, content) ==
    CASE dispatch(attachment_type(url)) = "pdf" -> get_text_from_pdf(content)
      [] dispatch(attachment_type(url)) = "xhtml" -> get_text_from_xhtml(content)
      [] dispatch(attachment_type(url)) = "zip" -> get_text_from_zip(content)
      [] OTHER -> Returned(<< >>)

-----------------------------------------------------------------------------
(* Detail pages.  A page is its main container (absent, or its text nodes) *)
(* and the tables below it, in document order; a table is the sequence of  *)
(* its <a> elements in document order.  An <a> may lack the href attribute,*)
(* may carry an empty one, and may or may not sit at "tr > td > li > a";   *)
(* body is the payload the site serves behind it.                          *)

Link(href, li, body) == [has_href |-> TRUE, href |-> href, li |-> li, body |-> body]

\* <li><a name="...">: no href attribute
Anchor == [has_href |-> FALSE, href |-> << >>, li |-> TRUE, body |-> Corrupt]

Page(has_container, nodes, tables) ==
    [has_container |-> has_container, nodes |-> nodes, tables |-> tables]

RECURSIVE get_text_strip(_)
\* Tag.get_text(strip=True): every text node stripped, the empty ones
\* dropped, the rest joined.  " " is a node of white space only.
get_text_strip(nodes) ==
    IF nodes = << >> THEN << >>
    ELSE (IF Head(nodes) = " " THEN << >> ELSE <<Head(nodes)>>)
         \o get_text_strip(Tail(nodes))

\* lines 157-159
page_main_text(page) ==
    IF page.has_container THEN get_text_strip(page.nodes) ELSE << >>

\* table.find('a', href=True): bs4's True matches any value that is not
\* None, the empty string included
table_has_href_link(table) == \E k \in 1..Len(table) : table[k].has_href

\* line 166, as the positions of the tables kept
found_tables(page) ==
    SelectSeq([t \in 1..Len(page.tables) |-> t],
              LAMBDA t : table_has_href_link(page.tables[t]))

\* found_tables[0]: the first table taken for the second
correct_table_first(found) == found[1]

\* line 171: found_tables[1]
correct_table(found) == found[2]

\* line 172: correct_table.select("tr > td > li > a"), each element with its
\* place in the document
select_li_links(page, t) ==
    LET table == page.tables[t]
        at == SelectSeq([k \in 1..Len(table) |-> k], LAMBDA k : table[k].li)
    IN [n \in 1..Len(at) |-> [tbl |-> t, idx |-> at[n], link |-> table[at[n]]]]

\* lines 168-172
page_attachment_links(page) ==
    IF Len(found_tables(page)) >= 2
    THEN select_li_links(page, correct_table(found_tables(page)))
    ELSE << >>

-----------------------------------------------------------------------------
(* The site the scraper runs against.                                      *)

Statuses == {200, 404}

\* line 23, date = "07-05-2024"
base_url ==
    <<"https:", "/", "/", "www", ".", "gpw", ".", "pl", "/",
      "komunikaty?categoryRaports=EBI", ",", "ESPI&typeRaports=RB", ",", "P", ",",
      "Q", ",", "O", ",", "R&searchText=&date=07-05-2024">>

DetailURL(id) ==
    <<"https:", "/", "/", "www", ".", "gpw", ".", "pl", "/", id>>

DetailURLs == {DetailURL("komunikat?geru_id=1"), DetailURL("komunikat?geru_id=2")}

\* The <a> elements "#search-result > li > strong > a" finds on a listing
\* page, each already as the dict line 36 builds (urljoin leaves the
\* absolute hrefs the listings of the model carry as they are).
ListingRows == {[Title |-> "RB", URL |-> u] : u \in DetailURLs}

RECURSIVE SeqsUpTo(_, _)
\* the sequences over S of length at most n
SeqsUpTo(S, n) ==
    IF n = 0 THEN {<< >>}
    ELSE LET shorter == SeqsUpTo(S, n - 1)
         IN shorter \cup {Append(q, x) : q \in shorter, x \in S}

PdfTwoPages == PdfBody(<< <<"P1">>, << >>, <<"P2">> >>)

L_report_txt == Link(<<"report", ".", "txt">>, TRUE, TextBody(<<"Revenue up 5%">>))

L_a_pdf == Link(<<"attachment", "/", "a", ".", "pdf">>, TRUE, PdfTwoPages)

L_sig_xades == Link(<<"attachment", "/", "a", ".", "pdf", ".", "xades">>, TRUE, Corrupt)

L_notes_doc == Link(<<"/", "docs", "/", "notes", ".", "doc">>, TRUE, Corrupt)

L_bad_pdf == Link(<<"attachment", "/", "bad", ".", "pdf">>, TRUE, Corrupt)

L_b_xhtml ==
    Link(<<"attachment", "/", "b", ".", "xhtml", ",", "v2">>, TRUE,
         XhtmlBody(<<"X1", " ", "X2">>))

L_pack_zip ==
    Link(<<"attachment", "/", "pack", ".", "zip">>, TRUE,
         ZipBody(<<Entry(<<"a", ".", "txt">>, TextBody(<<"A">>)),
                   Entry(<<"b", ".", "pdf">>, PdfTwoPages),
                   Entry(<<"c", ".", "xades">>, Corrupt)>>))

L_odd_zip ==
    Link(<<"attachment", "/", "odd", ".", "zip">>, TRUE,
         ZipBody(<<Entry(<<"n", ".", "txt", ",", "1">>, TextBody(<<"N">>)),
                   Entry(<<"x", ".", "xhtml">>, XhtmlBody(<<"X1">>)),
                   Entry(<<"inner", ".", "zip">>,
                         ZipBody(<<Entry(<<"a", ".", "txt">>, TextBody(<<"A">>))>>))>>))

L_bad_zip ==
    Link(<<"attachment", "/", "bad", ".", "zip">>, TRUE,
         ZipBody(<<Entry(<<"a", ".", "txt">>, TextBody(<<"A">>)),
                   Entry(<<"b", ".", "pdf">>, Corrupt)>>))

L_no_period == Link(<<"attachment", "/", "pdf">>, TRUE, PdfTwoPages)

L_upper_pdf == Link(<<"attachment", "/", "R", ".", "PDF">>, TRUE, PdfTwoPages)

\* an <li><a href=""> and links outside any <li>
L_empty_href == Link(<< >>, TRUE, Corrupt)

L_stray == Link(<<"/", "regulacje", ".", "pdf">>, FALSE, PdfBody(<< <<"NAV">> >>))

L_stray_empty == Link(<< >>, FALSE, Corrupt)

\* the table of extraneous links the site puts first
T_nav == <<L_stray>>

\* The detail pages of the pipeline specification.
Pages ==
    { Page(TRUE, <<" ", "Q1 results", " ">>, <<T_nav, <<L_report_txt>>>>),
      Page(FALSE, << >>, << >>),
      Page(TRUE, <<"M">>, <<T_nav, <<L_notes_doc, L_a_pdf, L_sig_xades, L_b_xhtml>>>>),
      Page(TRUE, <<"M">>, <<T_nav, <<L_bad_pdf, L_b_xhtml>>>>),
      Page(TRUE, <<"M">>, <<T_nav, <<L_pack_zip>>>>),
      Page(TRUE, <<"M">>, <<T_nav, <<L_odd_zip>>>>),
      Page(TRUE, <<"M">>, <<T_nav, <<L_bad_zip, L_a_pdf>>>>),
      Page(TRUE, <<"M">>, <<T_nav, <<L_upper_pdf, L_no_period>>>>) }

\* The tables of the table-selection specification.
TableShapes ==
    { << >>, <<L_a_pdf>>, <<L_b_xhtml>>, <<L_empty_href>>, <<L_stray>>,
      <<L_stray_empty>>, <<Anchor>>, <<L_a_pdf, L_b_xhtml>>, <<L_stray, L_b_xhtml>>,
      <<Anchor, L_a_pdf>>, <<L_sig_xades, L_a_pdf>> }

TablePages == {Page(TRUE, <<"M">>, tables) : tables \in SeqsUpTo(TableShapes, MaxTables)}

-----------------------------------------------------------------------------
(* The script scraper_final.py.                                            *)

NoPage == Page(FALSE, << >>, << >>)

\* One requests.get as the log keeps it: what was asked for, the status,
\* for an attachment the place of its <a> in the page, and what became of
\* the response ("ok", "HTTPError", or "raised" by an extractor) with the
\* text it yielded.
Request(kind, url, status, tbl, idx, outcome, text) ==
    [kind |-> kind, url |-> url, status |-> status, tbl |-> tbl, idx |-> idx,
     outcome |-> outcome, text |-> text]

\* pd.DataFrame(results): a frame built from no rows has no columns
DataFrame(rows) ==
    [columns |-> IF rows = << >> THEN {} ELSE {"Title", "URL"}, rows |-> rows]

\* results[url] = content on an insertion-ordered dict
dict_set(d, url, content) ==
    IF \E k \in 1..Len(d) : d[k].url = url
    THEN [k \in 1..Len(d) |-> IF d[k].url = url THEN [url |-> url, content |-> content]
                                                ELSE d[k]]
    ELSE Append(d, [url |-> url, content |-> content])

Abort(exception) ==
    /\ pc' = "aborted"
    /\ error' = exception

\* an output file of a summarisation script that has not run
NotRun == [written |-> FALSE, error |-> "none", shape |-> "none", data |-> << >>]

Init ==
    /\ pc = "scrape_articles"
    /\ error = "none"
    /\ requests = << >>
    /\ df = DataFrame(<< >>)
    /\ i = 1
    /\ results = << >>
    /\ soup = NoPage
    /\ main_text = << >>
    /\ attachment_links = << >>
    /\ j = 1
    /\ attachment_texts = << >>
    /\ output_file = [written |-> FALSE, data |-> << >>]
    /\ input_file = [shape |-> "none", items |-> << >>]
    /\ summary_file = NotRun
    /\ multi_file = NotRun

\* lines 12-39 and 212
scrape_articles(max_rows) ==
    /\ pc = "scrape_articles"
    /\ \E status \in Statuses, articles \in SeqsUpTo(ListingRows, max_rows) :
         IF raise_for_status(status)
         THEN /\ requests' = Append(requests,
                    Request("listing", base_url, status, 0, 0, "HTTPError", << >>))
              /\ Abort("HTTPError")
              /\ UNCHANGED df
         ELSE /\ requests' = Append(requests,
                    Request("listing", base_url, status, 0, 0, "ok", << >>))
              /\ df' = DataFrame(articles)
              /\ pc' = "scrape_text_from_urls"
              /\ UNCHANGED error
    /\ UNCHANGED <<i, results, soup, main_text, attachment_links, j,
                   attachment_texts, output_file>>
    /\ UNCHANGED summary_vars

\* lines 204-205: results = {} and the evaluation of df['URL']
scrape_text_from_urls ==
    /\ pc = "scrape_text_from_urls"
    /\ IF "URL" \notin df.columns
       THEN /\ Abort("KeyError")
            /\ UNCHANGED <<results, i>>
       ELSE /\ results' = << >>
            /\ i' = 1
            /\ pc' = "for_url"
            /\ UNCHANGED error
    /\ UNCHANGED <<requests, df, soup, main_text, attachment_links, j,
                   attachment_texts, output_file>>
    /\ UNCHANGED summary_vars

\* lines 150-172: the detail page is fetched and parsed, the main text and
\* the attachment links are taken from it
scrape_text_from_url(pages) ==
    /\ pc = "for_url"
    /\ i <= Len(df.rows)
    /\ \E status \in Statuses, page \in pages :
         IF raise_for_status(status)
         THEN /\ requests' = Append(requests,
                    Request("detail", df.rows[i].URL, status, 0, 0, "HTTPError", << >>))
              /\ Abort("HTTPError")
              /\ UNCHANGED <<soup, main_text, attachment_links, j, attachment_texts>>
         ELSE /\ requests' = Append(requests,
                    Request("detail", df.rows[i].URL, status, 0, 0, "ok", << >>))
              /\ soup' = page
              /\ main_text' = page_main_text(page)
              /\ attachment_links' = page_attachment_links(page)
              /\ attachment_texts' = << >>
              /\ j' = 1
              /\ pc' = "for_attachment_link"
              /\ UNCHANGED error
    /\ UNCHANGED <<df, i, results, output_file>>
    /\ UNCHANGED summary_vars

\* lines 174-188 with get_text_from_attachment (102-132): one turn of the
\* loop over attachment_links
for_attachment_link ==
    /\ pc = "for_attachment_link"
    /\ j <= Len(attachment_links)
    /\ LET a == attachment_links[j]
           href == a.link.href
           attachment_url == resolve_attachment_url(df.rows[i].URL, href)
           text == extract_attachment(attachment_url, a.link.body)
       IN \E status \in Statuses :
            IF ~a.link.has_href
            THEN \* href is None: None.startswith
                 /\ Abort("AttributeError")
                 /\ UNCHANGED <<requests, j, attachment_texts>>
            ELSE IF ~passes_type_filter(attachment_type(href))
            THEN /\ j' = j + 1
                 /\ UNCHANGED <<pc, error, requests, attachment_texts>>
            ELSE IF raise_for_status(status)
            THEN /\ requests' = Append(requests,
                       Request("attachment", attachment_url, status, a.tbl, a.idx,
                               "HTTPError", << >>))
                 /\ Abort("HTTPError")
                 /\ UNCHANGED <<j, attachment_texts>>
            ELSE IF text.raised
            THEN /\ requests' = Append(requests,
                       Request("attachment", attachment_url, status, a.tbl, a.idx,
                               "raised", << >>))
                 /\ Abort("ExtractionError")
                 /\ UNCHANGED <<j, attachment_texts>>
            ELSE /\ requests' = Append(requests,
                       Request("attachment", attachment_url, status, a.tbl, a.idx,
                               "ok", text.text))
                 /\ attachment_texts' = attachment_texts \o text.text
                 /\ j' = j + 1
                 /\ UNCHANGED <<pc, error>>
    /\ UNCHANGED <<df, i, results, soup, main_text, attachment_links, output_file>>
    /\ UNCHANGED summary_vars

\* lines 191 and 206: return main_text + attachment_texts; results[url] = ...
return_text ==
    /\ pc = "for_attachment_link"
    /\ j > Len(attachment_links)
    /\ results' = dict_set(results, df.rows[i].URL, main_text \o attachment_texts)
    /\ i' = i + 1
    /\ pc' = "for_url"
    /\ UNCHANGED <<error, requests, df, soup, main_text, attachment_links, j,
                   attachment_texts, output_file>>
    /\ UNCHANGED summary_vars

\* lines 207-221: the loop is over; data is built from results.items() and
\* dumped to scraped_articles.json
write_output_file ==
    /\ pc = "for_url"
    /\ i > Len(df.rows)
    /\ output_file' = [written |-> TRUE,
                       data |-> [k \in 1..Len(results) |->
                                   [url |-> results[k].url, content |-> results[k].content]]]
    /\ pc' = "done"
    /\ UNCHANGED <<error, requests, df, i, results, soup, main_text, attachment_links,
                   j, attachment_texts>>
    /\ UNCHANGED summary_vars

Next ==
    \/ scrape_articles(MaxListing)
    \/ scrape_text_from_urls
    \/ scrape_text_from_url(Pages)
    \/ for_attachment_link
    \/ return_text
    \/ write_output_file

Spec == Init /\ [][Next]_vars

\* The same script against every page built from TableShapes, for listings
\* of at most one entry.
NextTables ==
    \/ scrape_articles(1)
    \/ scrape_text_from_urls
    \/ scrape_text_from_url(TablePages)
    \/ for_attachment_link
    \/ return_text
    \/ write_output_file

SpecTables == Init /\ [][NextTables]_vars

-----------------------------------------------------------------------------
(* The summarisation scripts.  The JSON value they load is a dict (shape   *)
(* "dict", one item), a list of dicts (shape "list") or anything else      *)
(* (shape "other"); what the language model answers is any of Summaries.   *)

Summaries == {"S1", "S2"}

Articles ==
    {[url |-> u, content |-> c] : u \in DetailURLs, c \in {<< >>, <<"Q1 results">>}}

InputFiles ==
    {[shape |-> "dict", items |-> <<a>>] : a \in Articles}
    \cup {[shape |-> "list", items |-> items] : items \in SeqsUpTo(Articles, MaxArticles)}
    \cup {[shape |-> "other", items |-> << >>]}

\* One JSON object of an output file, by the keys it has.
SummaryObject(url, summary) ==
    [keys |-> {"url", "summary"}, url |-> url, summary |-> summary]

BareSummaryObject(summary) ==
    [keys |-> {"summary"}, url |-> << >>, summary |-> summary]

Written(shape, data) ==
    [written |-> TRUE, error |-> "none", shape |-> shape, data |-> data]

Failed(exception) ==
    [written |-> FALSE, error |-> exception, shape |-> "none", data |-> << >>]

InitSummary ==
    /\ pc = "done"
    /\ error = "none"
    /\ requests = << >>
    /\ df = DataFrame(<< >>)
    /\ i = 1
    /\ results = << >>
    /\ soup = NoPage
    /\ main_text = << >>
    /\ attachment_links = << >>
    /\ j = 1
    /\ attachment_texts = << >>
    /\ output_file = [written |-> FALSE, data |-> << >>]
    /\ input_file \in InputFiles
    /\ summary_file = NotRun
    /\ multi_file = NotRun

\* single_agent.py lines 73-109; summarize_article is one answer of the model
\* per article
summarize_articles_from_file ==
    /\ summary_file = NotRun
    /\ input_file.shape # "none"
    /\ \E summary \in [1..Len(input_file.items) -> Summaries] :
         summary_file' =
            IF input_file.shape \in {"dict", "list"}
            THEN Written("list",
                         [k \in 1..Len(input_file.items) |->
                            SummaryObject(input_file.items[k].url, summary[k])])
            ELSE Failed("ValueError")
    /\ UNCHANGED <<input_file, multi_file>>
    /\ UNCHANGED scraper_vars

\* multi_agent.py lines 76-94; refine_summary_with_feedback asks the model
\* three times and returns the last answer
summarize_and_refine_article ==
    /\ multi_file = NotRun
    /\ input_file.shape # "none"
    /\ \E summary \in Summaries, feedback \in Summaries, refined_summary \in Summaries :
         multi_file' =
            IF input_file.shape = "dict"
            THEN Written("dict", <<BareSummaryObject(refined_summary)>>)
            ELSE \* data['content'] on a list, or on a value that is no container
                 Failed("TypeError")
    /\ UNCHANGED <<input_file, summary_file>>
    /\ UNCHANGED scraper_vars

NextSummary ==
    \/ summarize_articles_from_file
    \/ summarize_and_refine_article

SpecSummary == InitSummary /\ [][NextSummary]_vars

-----------------------------------------------------------------------------
(* What the properties below read off a state.                             *)

DetailPositions == {k \in 1..Len(requests) : requests[k].kind = "detail"}

\* soup is the page of the last detail request
InSync ==
    /\ DetailPositions # {}
    /\ requests[MaxOf(DetailPositions)].outcome = "ok"

\* the attachment requests issued for the page in soup
PageRequests ==
    IF DetailPositions = {} THEN << >>
    ELSE SubSeq(requests, MaxOf(DetailPositions) + 1, Len(requests))

LinkOf(request) == soup.tables[request.tbl][request.idx]

\* scrape_text_from_url has returned for the page in soup
PageDone == InSync /\ pc \in {"for_url", "done"}

\* str.lower on the tokens of the model that have upper-case letters
Lower(tok) ==
    CASE tok = "PDF" -> "pdf"
      [] tok = "R" -> "r"
      [] OTHER -> tok

\* The type resolver as the specification words it (section 4.1): the part
\* before the first comma, then what follows its last period, compared in
\* lower case; a name without a period is unknown.
SpecResolve(name) ==
    LET stem == SplitFirst(SplitLast(name, "/"), ",")
        ext == SplitLast(stem, ".")
    IN IF Positions(stem, ".") = {} \/ Len(ext) # 1 THEN "unknown"
       ELSE IF Lower(ext[1]) \in {"txt", "pdf", "xhtml", "zip"} THEN Lower(ext[1])
       ELSE "unknown"

\* results[url]
Content(d, url) == CHOOSE k \in 1..Len(d) : d[k].url = url

-----------------------------------------------------------------------------
(* C1.  The text of a detail page is its main-body text followed by the    *)
(* extracted text of every attachment link of the selected table, in link  *)
(* order with nothing in between, a txt, pdf, xhtml or zip attachment      *)
(* contributing its extractor's text: main text "Q1 results" with          *)
(* report.txt holding "Revenue up 5%" gives "Q1 resultsRevenue up 5%".     *)

\* what an attachment is to contribute: as the code has it, and a txt
\* attachment its decoded text
C1_Contribution(url, body) ==
    IF attachment_type(url) = <<"txt">> THEN read_decode_utf8(body).text
    ELSE extract_attachment(url, body).text

C1_PageText(url, page) ==
    page_main_text(page)
    \o Flatten([n \in 1..Len(page_attachment_links(page)) |->
                  LET link == page_attachment_links(page)[n].link
                  IN C1_Contribution(resolve_attachment_url(url, link.href), link.body)])

\* C1: once a page is scraped, its record holds the main text followed by
\* every attachment's text, a txt attachment's included.
C1_TextIsMainThenAttachments ==
    PageDone =>
        LET url == df.rows[i - 1].URL
        IN results[Content(results, url)].content = C1_PageText(url, soup)

-----------------------------------------------------------------------------
(* C2.  A listing page with zero matching entries: the run completes       *)
(* without raising and writes an empty corpus.                             *)

EmptyListingFetched ==
    /\ pc # "scrape_articles"
    /\ requests[1].outcome = "ok"
    /\ df.rows = << >>

\* C2: after an empty listing the run raises nothing and a corpus that is
\* written is empty.
C2_EmptyListingEmptyCorpus ==
    EmptyListingFetched =>
        /\ error = "none"
        /\ pc # "aborted"
        /\ output_file.written => output_file.data = << >>

-----------------------------------------------------------------------------
(* C3.  The corpus written has exactly one record per listing entry, the   *)
(* k-th record being that of the k-th entry, also when a detail URL occurs *)
(* more than once in the listing.                                          *)

\* C3: the corpus written has the length and the URLs of the listing, in order.
C3_OneRecordPerListingEntry ==
    output_file.written =>
        /\ Len(output_file.data) = Len(df.rows)
        /\ \A k \in 1..Len(df.rows) : output_file.data[k].url = df.rows[k].URL

-----------------------------------------------------------------------------
(* C4.  Attachment-table selection.  As claimed: a table qualifies only if *)
(* it holds a hyperlink with a non-empty destination; with no or one       *)
(* qualifying table nothing is fetched; with two or more, exactly the      *)
(* links of the second qualifying table are used, in document order, and   *)
(* no link of another table is fetched.  As amended: a table qualifies as  *)
(* soon as it holds a hyperlink that has a destination attribute, an empty *)
(* one included.                                                           *)

HasNonEmptyHref(table) ==
    \E k \in 1..Len(table) : table[k].has_href /\ table[k].href # << >>

HasHref(table) == \E k \in 1..Len(table) : table[k].has_href

\* the tables that qualify, by position: under the claim's reading
\* (non_empty) or under the amended one
Qualifying(page, non_empty) ==
    SelectSeq([t \in 1..Len(page.tables) |-> t],
              LAMBDA t : IF non_empty THEN HasNonEmptyHref(page.tables[t])
                                      ELSE HasHref(page.tables[t]))

\* the list-item links of a table that are not signature files
Fetchable(table) ==
    {k \in 1..Len(table) :
        /\ table[k].li
        /\ SplitLast(SplitFirst(SplitLast(table[k].href, "/"), ","), ".") # <<"xades">>}

SelectionHolds(non_empty) ==
    InSync =>
        LET q == Qualifying(soup, non_empty)
            att == PageRequests
        IN IF Len(q) < 2 THEN att = << >>
           ELSE /\ \A n \in 1..Len(att) : att[n].tbl = q[2] /\ LinkOf(att[n]).li
                /\ \A m, n \in 1..Len(att) : m < n => att[m].idx < att[n].idx
                /\ PageDone =>
                     {att[n].idx : n \in 1..Len(att)} = Fetchable(soup.tables[q[2]])

\* C4 as claimed: the second of the tables holding an <a> with a non-empty
\* href is the only one whose links are fetched.
C4_SecondTableWithNonEmptyHref == SelectionHolds(TRUE)

\* C4 as amended: the second of the tables holding an <a> with an href
\* attribute, empty or not, is the only one whose links are fetched.
C4_SecondTableWithHref == SelectionHolds(FALSE)

\* C4, its case: a page scraped to the end whose first table qualifies through an empty
\* href only, followed by two more link-bearing tables, with a fetch made
C4_Witness ==
    /\ PageDone
    /\ Len(soup.tables) = 3
    /\ HasHref(soup.tables[1]) /\ ~HasNonEmptyHref(soup.tables[1])
    /\ HasNonEmptyHref(soup.tables[2]) /\ HasNonEmptyHref(soup.tables[3])
    /\ Len(PageRequests) >= 2

-----------------------------------------------------------------------------
(* C5.  As claimed: no HTTP request is ever issued for an attachment whose *)
(* type is not one of txt, pdf, xhtml, zip.  As amended: only a reference  *)
(* whose type, derived from the raw href, is exactly "xades" is dropped    *)
(* before the request; every other reference, of a supported type or not,  *)
(* is requested.                                                           *)

\* C5 as claimed: every attachment requested resolves to a supported type.
C5_NoRequestForUnsupportedType ==
    \A k \in 1..Len(requests) :
        requests[k].kind = "attachment" => SpecResolve(requests[k].url) # "unknown"

IsSignature(href) == attachment_type(href) = <<"xades">>

\* C5 as amended: of the links the loop has been through, those of type
\* xades were not requested and all others were.
C5_OnlyXadesDroppedBeforeRequest ==
    InSync =>
        LET att == PageRequests
        IN /\ \A n \in 1..Len(att) : ~IsSignature(LinkOf(att[n]).href)
           /\ \A n \in 1..(j - 1) :
                ~IsSignature(attachment_links[n].link.href) =>
                    \E m \in 1..Len(att) : att[m].idx = attachment_links[n].idx

\* C5, its case: the loop went past a signature link without a request and past a .doc
\* link with one
C5_Witness ==
    /\ InSync
    /\ \E n \in 1..(j - 1) : IsSignature(attachment_links[n].link.href)
    /\ \E m \in 1..Len(PageRequests) :
         /\ SpecResolve(PageRequests[m].url) = "unknown"
         /\ EndsWith(PageRequests[m].url, <<".", "doc">>)
         /\ PageRequests[m].outcome = "ok"

-----------------------------------------------------------------------------
(* C6.  Type resolution is the function of section 4.1: the part of the    *)
(* name before the first comma, what follows its last period, compared in  *)
(* lower case with txt, pdf, xhtml, zip, anything else unknown; a name     *)
(* without a period is unknown and never reaches an extractor; the filter  *)
(* before the download and the dispatch after it see the same type.        *)

\* the type tag the code's comparisons give the string it derived
TypeTag(attachment_type_) ==
    IF attachment_type_ \in {<<"txt">>, <<"pdf">>, <<"xhtml">>, <<"zip">>}
    THEN attachment_type_[1]
    ELSE "unknown"

HasPeriod(name) == Positions(SplitFirst(SplitLast(name, "/"), ","), ".") # {}

\* C6: for every attachment requested, the type the code acts on is the one
\* section 4.1 resolves, a name without a period reaches no extractor, and
\* href and URL derive the same type.
C6_TypeResolution ==
    InSync =>
        \A n \in 1..Len(PageRequests) :
            LET href == LinkOf(PageRequests[n]).href
                url == PageRequests[n].url
            IN /\ TypeTag(attachment_type(url)) = SpecResolve(href)
               /\ ~HasPeriod(href) => dispatch(attachment_type(url)) = "none"
               /\ attachment_type(href) = attachment_type(url)

-----------------------------------------------------------------------------
(* C7.  get_text_from_zip returns, in the archive's listing order, the     *)
(* text of every entry whose name resolves to a supported type by the rule *)
(* of the top-level attachments; entries of unknown type add nothing:      *)
(* [a.txt, b.pdf, c.xades] gives extract(a.txt) + extract(b.pdf).          *)

RECURSIVE SpecZipText(_)
SpecZipText(entries) ==
    IF entries = << >> THEN << >>
    ELSE LET entry == Head(entries)
             tag == SpecResolve(entry.name)
             text == CASE tag = "txt" -> read_decode_utf8(entry.body).text
                       [] tag = "pdf" -> get_text_from_pdf(entry.body).text
                       [] tag = "xhtml" -> get_text_from_xhtml(entry.body).text
                       [] tag = "zip" -> SpecZipText(entry.body.entries)
                       [] OTHER -> << >>
         IN text \o SpecZipText(Tail(entries))

\* C7: the text an archive attachment yielded is that of its entries of
\* supported resolved type, in listing order.
C7_ArchiveTextByResolvedType ==
    InSync =>
        \A n \in 1..Len(PageRequests) :
            LET request == PageRequests[n]
            IN (request.outcome = "ok" /\ dispatch(attachment_type(request.url)) = "zip")
                  => request.text = SpecZipText(LinkOf(request).body.entries)

-----------------------------------------------------------------------------
(* C8.  A payload of a known type that cannot be read contributes the      *)
(* empty text for that one attachment: the run goes on to the remaining    *)
(* attachments and the item's record is emitted.                           *)

\* C8: an extractor failing on an unreadable payload does not end the run.
C8_UnreadablePayloadIsRecoverable ==
    \A k \in 1..Len(requests) :
        requests[k].outcome = "raised" => (error = "none" /\ pc # "aborted")

-----------------------------------------------------------------------------
(* C9.  A fetch answered with a non-success status (listing page, detail   *)
(* page or attachment) is an error, never an empty text: it ends the run,  *)
(* no request follows it and no corpus file is written.                    *)

\* C9: a request answered with a non-success status is the last request of
\* the run, which is aborted with the HTTP error and has written no file.
C9_FailedFetchAbortsRun ==
    \A k \in 1..Len(requests) :
        requests[k].status # 200 =>
            /\ k = Len(requests)
            /\ pc = "aborted"
            /\ error = "HTTPError"
            /\ ~output_file.written

\* C9, its case: an attachment answered 404 after an item had been scraped in full
C9_Witness ==
    /\ pc = "aborted"
    /\ Len(results) >= 1
    /\ requests[Len(requests)].kind = "attachment"
    /\ requests[Len(requests)].status = 404

-----------------------------------------------------------------------------
(* C10.  Each summarisation entry point takes a single {url, content}      *)
(* object as well as a sequence of them and writes, per input object and   *)
(* in input order, one object with that object's url and its summary.      *)

OneSummaryPerArticle(file) ==
    /\ file.error = "none"
    /\ file.written =>
         /\ Len(file.data) = Len(input_file.items)
         /\ \A k \in 1..Len(file.data) :
              /\ file.data[k].keys = {"url", "summary"}
              /\ file.data[k].url = input_file.items[k].url
              /\ file.data[k].summary \in Summaries

\* C10: on a dict or a list, neither script fails and each output holds one
\* {url, summary} object per input object, in order.
C10_EveryEntryPointSummarisesEachArticle ==
    input_file.shape \in {"dict", "list"} =>
        /\ OneSummaryPerArticle(summary_file)
        /\ OneSummaryPerArticle(multi_file)

====
